---- MODULE Spec2Model ----
(***************************************************************************)
(* Model of geoip_acl_downloader.py (class GeoIPACLDownloader).            *)
(*                                                                         *)
(* Addresses are AddrBits wide instead of 32 (IPv4) / 128 (IPv6); a        *)
(* network is the record [version, network_address, prefixlen] that        *)
(* ipaddress.ip_network builds.                                            *)
(***************************************************************************)
EXTENDS Integers, Sequences, FiniteSets, TLC

\* ------------------------------------------------------------------ bounds
AddrBits == 2
MaxNets == 3

\* ------------------------------------------------- ipaddress network values
Versions == {4, 6}

RECURSIVE Pow2(_)
Pow2(n) == IF n = 0 THEN 1 ELSE 2 * Pow2(n - 1)

max_prefixlen == AddrBits

\* number of addresses of a network of the given prefix length
num_addresses(prefixlen) == Pow2(max_prefixlen - prefixlen)

\* ipaddress.ip_network(..., strict=False): the host bits are zeroed
ip_network(version, address, prefixlen) ==
    [version |-> version,
     network_address |-> address - (address % num_addresses(prefixlen)),
     prefixlen |-> prefixlen]

broadcast_address(net) ==
    net.network_address + num_addresses(net.prefixlen) - 1

\* every network value ip_network can return
Networks ==
    {ip_network(v, a, l) : v \in Versions, a \in 0..(Pow2(AddrBits) - 1),
                           l \in 0..AddrBits}

NetworksOf(version) == {n \in Networks : n.version = version}

\* a.subnet_of(b), for two networks of the same version
subnet_of_addr_only(a, b) ==
    b.network_address <= a.network_address

subnet_of_same_address(a, b) ==
    /\ b.network_address = a.network_address
    /\ b.prefixlen <= a.prefixlen

subnet_of(a, b) ==
    /\ b.network_address <= a.network_address
    /\ broadcast_address(b) >= broadcast_address(a)

\* ------------------------------------------------------- filter_supernets
\* at one address the longer prefix comes first
sort_key_longest_first(x, y) ==
    \/ x.network_address < y.network_address
    \/ /\ x.network_address = y.network_address
       /\ x.prefixlen > y.prefixlen

\* key=lambda x: (x.network_address, x.prefixlen)
sort_key_less(x, y) ==
    \/ x.network_address < y.network_address
    \/ /\ x.network_address = y.network_address
       /\ x.prefixlen < y.prefixlen

\* insertion of one element into an already sorted list, after its equals
RECURSIVE insort(_, _)
insort(s, x) ==
    IF s = <<>> THEN <<x>>
    ELSE IF sort_key_less(x, Head(s)) THEN <<x>> \o s
         ELSE <<Head(s)>> \o insort(Tail(s), x)

\* sorted(networks, key=...), networks iterated in the order `order`
RECURSIVE sorted_by_key(_)
sorted_by_key(order) ==
    IF order = <<>> THEN <<>>
    ELSE insort(sorted_by_key(SubSeq(order, 1, Len(order) - 1)),
                order[Len(order)])

\* the iteration orders of a set
Orders(S) ==
    {s \in [1..Cardinality(S) -> S] : \A i, j \in DOMAIN s : i # j => s[i] # s[j]}

is_subnet(current_net, filtered) ==
    \E existing_net \in filtered :
        current_net # existing_net /\ subnet_of(current_net, existing_net)

\* body of the loop over sorted_networks
filter_step_keep_all(filtered, current_net) ==
    {net \in filtered : ~(net # current_net /\ subnet_of(net, current_net))}
        \cup {current_net}

\* the two siblings of a prefix are replaced by their parent
filter_step_coalesce(filtered, current_net) ==
    LET sib == {net \in filtered :
                   /\ net.prefixlen = current_net.prefixlen
                   /\ net.prefixlen > 0
                   /\ net # current_net
                   /\ ip_network(net.version, net.network_address, net.prefixlen - 1)
                      = ip_network(current_net.version, current_net.network_address,
                                   current_net.prefixlen - 1)}
    IN  IF is_subnet(current_net, filtered) THEN filtered
        ELSE IF sib # {}
             THEN (filtered \ sib) \cup
                  {ip_network(current_net.version, current_net.network_address,
                              current_net.prefixlen - 1)}
             ELSE filtered \cup {current_net}

filter_step(filtered, current_net) ==
    IF is_subnet(current_net, filtered)
    THEN filtered
    ELSE {net \in filtered : ~(net # current_net /\ subnet_of(net, current_net))}
             \cup {current_net}

RECURSIVE filter_loop_skip_last(_, _, _)
filter_loop_skip_last(sorted_networks, i, filtered) ==
    IF i >= Len(sorted_networks) THEN filtered
    ELSE filter_loop_skip_last(sorted_networks, i + 1,
                               filter_step(filtered, sorted_networks[i]))

\* for current_net in sorted_networks: ...
RECURSIVE filter_loop(_, _, _)
filter_loop(sorted_networks, i, filtered) ==
    IF i > Len(sorted_networks) THEN filtered
    ELSE filter_loop(sorted_networks, i + 1,
                     filter_step(filtered, sorted_networks[i]))

\* the input is taken in iteration order and nothing already kept is evicted
RECURSIVE first_fit(_, _, _)
first_fit(order, i, filtered) ==
    IF i > Len(order) THEN filtered
    ELSE first_fit(order, i + 1,
                   IF is_subnet(order[i], filtered) THEN filtered
                   ELSE filtered \cup {order[i]})

filter_supernets_first_fit(order) ==
    IF order = <<>> THEN {} ELSE first_fit(order, 1, {})

\* the elements the loop removes from `filtered` when it inserts a later one
RECURSIVE evicted_in_loop(_, _, _, _)
evicted_in_loop(sorted_networks, i, filtered, removed) ==
    IF i > Len(sorted_networks) THEN removed
    ELSE LET kept == filter_step(filtered, sorted_networks[i])
         IN  evicted_in_loop(sorted_networks, i + 1, kept,
                             removed \cup (filtered \ kept))

evicted_by(order) ==
    IF order = <<>> THEN {}
    ELSE evicted_in_loop(sorted_by_key(order), 1, {}, {})

\* filter_supernets(networks), the set being iterated in the order `order`
filter_supernets(order) ==
    IF order = <<>> THEN {}
    ELSE filter_loop(sorted_by_key(order), 1, {})

\* ------------------------------------------------------ parse_acl_content
\* A line is a sequence of pieces of text; a document is the sequence of
\* lines content.split('\n') returns.
country_code == "BR"
acl_pattern == "acl BR"

\* the network literals of the documents: text |-> (version, address, prefixlen)
LiteralText == {"4:0/1", "4:3/1", "4:1/2", "4:2", "6:1/2", "6:0/0"}

\* what ip_network makes of each literal ("4:2" has no prefix length)
literal(t) ==
    CASE t = "4:0/1" -> ip_network(4, 0, 1)
      [] t = "4:3/1" -> ip_network(4, 3, 1)
      [] t = "4:1/2" -> ip_network(4, 1, 2)
      [] t = "4:2"   -> ip_network(4, 2, max_prefixlen)
      [] t = "6:1/2" -> ip_network(6, 1, 2)
      [] t = "6:0/0" -> ip_network(6, 0, 0)

RECURSIVE lstrip(_, _)
lstrip(s, ch) ==
    IF s # <<>> /\ Head(s) = ch THEN lstrip(Tail(s), ch) ELSE s

RECURSIVE rstrip(_, _)
rstrip(s, ch) ==
    IF s # <<>> /\ s[Len(s)] = ch THEN rstrip(SubSeq(s, 1, Len(s) - 1), ch) ELSE s

\* str.strip() and str.strip(';')
strip(s, ch) == rstrip(lstrip(s, ch), ch)

contains(line, piece) == \E i \in DOMAIN line : line[i] = piece

\* ipaddress.ip_network(ip_str, strict=False): a network, or ValueError
is_valid_network(ip_str) == Len(ip_str) = 1 /\ ip_str[1] \in LiteralText

\* except ValueError: the line is logged and the scan goes on
on_value_error_reraise(st) == [st EXCEPT !.raised = TRUE]

on_value_error(st) == st

\* if in_country_block and line:
in_block_line_any(in_block, line) == line # <<>>

in_block_line(in_block, line) == in_block /\ line # <<>>

\* the end marker is tested before the start marker
parse_line_end_first(st, raw_line) ==
    LET line == strip(raw_line, " ")
        ip_str == strip(strip(line, ";"), " ")
    IN  IF contains(line, "}") /\ st.in_country_block
        THEN [st EXCEPT !.in_country_block = FALSE]
        ELSE IF contains(line, acl_pattern)
        THEN [st EXCEPT !.in_country_block = TRUE]
        ELSE IF in_block_line(st.in_country_block, line)
        THEN IF ip_str # <<>> /\ Head(ip_str) # "#"
             THEN IF is_valid_network(ip_str)
                  THEN [st EXCEPT !.networks = @ \cup {literal(ip_str[1])}]
                  ELSE on_value_error(st)
             ELSE st
        ELSE st

\* one iteration of the loop over the lines; st = [in_country_block, networks, raised]
parse_line(st, raw_line) ==
    LET line == strip(raw_line, " ")
        ip_str == strip(strip(line, ";"), " ")
    IN  IF contains(line, acl_pattern)
        THEN [st EXCEPT !.in_country_block = TRUE]
        ELSE IF contains(line, "}") /\ st.in_country_block
        THEN [st EXCEPT !.in_country_block = FALSE]
        ELSE IF in_block_line(st.in_country_block, line)
        THEN IF ip_str # <<>> /\ Head(ip_str) # "#"
             THEN IF is_valid_network(ip_str)
                  THEN [st EXCEPT !.networks = @ \cup {literal(ip_str[1])}]
                  ELSE on_value_error(st)
             ELSE st
        ELSE st

RECURSIVE parse_lines(_, _, _)
parse_lines(lines, i, st) ==
    IF i > Len(lines) \/ st.raised THEN st
    ELSE parse_lines(lines, i + 1, parse_line(st, lines[i]))

parse_start == [in_country_block |-> FALSE, networks |-> {}, raised |-> FALSE]

\* a block still open at the end of the document is thrown away
returned_networks_closed_only(st) ==
    IF st.in_country_block THEN {} ELSE st.networks

\* return networks
returned_networks(st) == st.networks

\* parse_acl_content(content): the returned set
parse_acl_content(text) ==
    returned_networks(parse_lines(text, 1, parse_start))

\* -------------------------------------------------- save_networks_to_file
netmask(net) == Pow2(max_prefixlen) - num_addresses(net.prefixlen)

\* the order of two networks of one version: (network_address, netmask)
network_less(x, y) ==
    \/ x.network_address < y.network_address
    \/ /\ x.network_address = y.network_address
       /\ netmask(x) < netmask(y)

RECURSIVE insort_network(_, _)
insort_network(s, x) ==
    IF s = <<>> THEN <<x>>
    ELSE IF network_less(x, Head(s)) THEN <<x>> \o s
         ELSE <<Head(s)>> \o insort_network(Tail(s), x)

\* sorted(networks)
RECURSIVE sorted_networks_default(_)
sorted_networks_default(order) ==
    IF order = <<>> THEN <<>>
    ELSE insort_network(sorted_networks_default(SubSeq(order, 1, Len(order) - 1)),
                        order[Len(order)])

\* the networks are written in iteration order
written_lines_unsorted(order) == order

\* the lines the file holds when every write succeeded
written_lines(order) == sorted_networks_default(order)

\* ------------------------------------------------- download_and_parse_all
max_workers == 3

\* if content:
is_truthy(text) == text # << <<>> >>

\* all_networks.update(networks)
update(all, nets) == all \cup nets

\* except Exception as e: logger.error(...), the loop goes on
on_processing_error_abort(pc) == "raised"

on_processing_error(pc) == pc

\* -------------------------------------------------------------- process
\* if not ipv4_networks and not ipv6_networks:
no_networks_never(v4, v6) == FALSE

no_networks(v4, v6) == v4 = {} /\ v6 = {}

\* what process hands back: None from `return` and from the end of the
\* method, the exception from `raise`
process_result(pc) ==
    CASE pc \in {"returned", "completed"} -> "None"
      [] pc = "raised" -> "exception"
      [] OTHER -> "running"

\* main: sys.exit(1) under `except Exception`, else the end of main
exit_status(pc) == IF pc = "raised" THEN 1 ELSE 0

\* ------------------------------------------------------------------ state
VARIABLES
    networks,          \* filter_supernets: the argument (a set)
    filtered,          \* filter_supernets: the returned set
    fs_pc,             \* "idle" | "call" | "returned"
    fs_round,          \* "first" | "shuffled" | "reapplied"
    prev_networks,     \* argument of the previous call
    prev_filtered,     \* result of the previous call
    evicted,           \* filter_supernets: what the loop removed from `filtered`
    content,           \* parse_acl_content: the lines of the document
    line_num,          \* parse_acl_content: number of the next line to scan
    in_country_block,  \* parse_acl_content: the flag
    pa_networks,       \* parse_acl_content: the local set `networks`
    pa_pc,             \* "idle" | "scan" | "returned" | "raised"
    files,             \* per version: the output file
    served,            \* per source: the document its URL serves
    fetch,             \* per source: "queued" | "running" | "done"
    result,            \* per source: what its future holds
    yielded,           \* the sources as_completed has yielded
    all_networks,      \* download_and_parse_all: all_networks
    ipv4_networks,     \* process: ipv4_networks
    ipv6_networks,     \* process: ipv6_networks
    pr_pc,             \* process: where the run is
    log                \* the events logged by the run

fsVars == <<networks, filtered, fs_pc, fs_round, prev_networks, prev_filtered,
           evicted>>
paVars == <<content, line_num, in_country_block, pa_networks, pa_pc>>
dlVars == <<served, fetch, result, yielded, all_networks>>
prVars == <<ipv4_networks, ipv6_networks, pr_pc, log>>
vars == <<fsVars, paVars, files, dlVars, prVars>>

FsIdle ==
    /\ networks = {}
    /\ filtered = {}
    /\ fs_pc = "idle"
    /\ fs_round = "first"
    /\ prev_networks = {}
    /\ prev_filtered = {}
    /\ evicted = {}

PaIdle ==
    /\ content = <<>>
    /\ line_num = 0
    /\ in_country_block = FALSE
    /\ pa_networks = {}
    /\ pa_pc = "idle"

\* an output file: absent, or present with the lines written to it
NoFile == [exists |-> FALSE, lines |-> <<>>]
FileOf(lines) == [exists |-> TRUE, lines |-> lines]

NoFiles == [v \in Versions |-> NoFile]

RunIdle ==
    /\ served = <<>>
    /\ fetch = <<>>
    /\ result = <<>>
    /\ yielded = {}
    /\ all_networks = {}
    /\ ipv4_networks = {}
    /\ ipv6_networks = {}
    /\ pr_pc = "idle"
    /\ log = {}

\* ------------------------------- reduce and save one family (SpecFilter)
\* save_networks_to_file(networks, filename) when every write succeeds
save_networks_to_file(fs, order, version) ==
    IF order = <<>> THEN fs
    ELSE [fs EXCEPT ![version] = FileOf(written_lines(order))]

\* ... and when open() or a write raises IOError: the file is left as it
\* was, or holds the first k lines
save_interrupted(fs, order, version) ==
    {fs} \cup {[fs EXCEPT ![version] = FileOf(SubSeq(written_lines(order), 1, k))] :
                  k \in 0..(Len(order) - 1)}

VersionOf(S) == (CHOOSE n \in S : TRUE).version

FsInit ==
    /\ \E v \in Versions :
         networks \in {S \in SUBSET NetworksOf(v) : Cardinality(S) <= MaxNets}
    /\ filtered = {}
    /\ fs_pc = "call"
    /\ fs_round = "first"
    /\ prev_networks = {}
    /\ prev_filtered = {}
    /\ evicted = {}
    /\ files = NoFiles
    /\ PaIdle
    /\ RunIdle

\* one call of filter_supernets; Python iterates the set in some order
FsCall ==
    /\ fs_pc = "call"
    /\ \E order \in Orders(networks) :
         /\ filtered' = filter_supernets(order)
         /\ evicted' = evicted_by(order)
    /\ fs_pc' = "returned"
    /\ UNCHANGED <<networks, fs_round, prev_networks, prev_filtered>>
    /\ UNCHANGED <<paVars, files, dlVars, prVars>>

\* the same set is reduced again (another iteration order of the same set)
FsShuffle ==
    /\ fs_pc = "returned"
    /\ fs_round = "first"
    /\ prev_networks' = networks
    /\ prev_filtered' = filtered
    /\ fs_round' = "shuffled"
    /\ fs_pc' = "call"
    /\ UNCHANGED <<networks, filtered, evicted>>
    /\ UNCHANGED <<paVars, files, dlVars, prVars>>

\* the result is reduced again
FsReapply ==
    /\ fs_pc = "returned"
    /\ fs_round = "first"
    /\ prev_networks' = networks
    /\ prev_filtered' = filtered
    /\ networks' = filtered
    /\ fs_round' = "reapplied"
    /\ fs_pc' = "call"
    /\ UNCHANGED <<filtered, evicted>>
    /\ UNCHANGED <<paVars, files, dlVars, prVars>>

\* the result is handed to save_networks_to_file
FsSave ==
    /\ fs_pc = "returned"
    /\ fs_round = "first"
    /\ \E order \in Orders(filtered) :
         files' = IF filtered = {} THEN files
                  ELSE save_networks_to_file(files, order, VersionOf(filtered))
    /\ fs_pc' = "saved"
    /\ UNCHANGED <<networks, filtered, fs_round, prev_networks, prev_filtered,
                   evicted>>
    /\ UNCHANGED <<paVars, dlVars, prVars>>

\* ... and the save raises IOError
FsSaveFail ==
    /\ fs_pc = "returned"
    /\ fs_round = "first"
    /\ filtered # {}
    /\ \E order \in Orders(filtered) :
         files' \in save_interrupted(files, order, VersionOf(filtered))
    /\ fs_pc' = "save_failed"
    /\ UNCHANGED <<networks, filtered, fs_round, prev_networks, prev_filtered,
                   evicted>>
    /\ UNCHANGED <<paVars, dlVars, prVars>>

FsNext == FsCall \/ FsShuffle \/ FsReapply \/ FsSave \/ FsSaveFail

SpecFilter == FsInit /\ [][FsNext]_vars

\* ----------------------------------------- extractor on its own (SpecParse)
MaxLines == 4

LinePool ==
    { <<"acl BR", " ", "{">>,             \* start of the target block
      <<"acl US", " ", "{">>,             \* start of another country's block
      <<"}", ";">>,                       \* end of a block
      <<" ", "4:0/1", ";">>,              \* indented literal
      <<"4:3/1", ";">>,                   \* literal with host bits set
      <<"6:1/2">>,                        \* literal without ';'
      <<"not-an-ip", ";">>,               \* no network literal
      <<"#", " ", "4:1/2">>,              \* comment
      <<" ">>,                            \* blank line
      <<"acl BR", " ", "{", " ", "}">>,   \* both markers on one line
      <<"4:1/2", ";", ";">>,              \* two trailing ';'
      <<";", "#", "4:2">> }               \* '#' after a leading ';'

Documents ==
    UNION {[1..n -> LinePool] : n \in 1..MaxLines}

PaInit ==
    /\ content \in Documents
    /\ line_num = 1
    /\ in_country_block = FALSE
    /\ pa_networks = {}
    /\ pa_pc = "scan"
    /\ files = NoFiles
    /\ FsIdle
    /\ RunIdle

\* one iteration of `for line_num, line in enumerate(lines, 1)`
PaLine ==
    /\ pa_pc = "scan"
    /\ line_num <= Len(content)
    /\ LET st == parse_line([in_country_block |-> in_country_block,
                             networks |-> pa_networks,
                             raised |-> FALSE], content[line_num])
       IN  /\ in_country_block' = st.in_country_block
           /\ pa_networks' = st.networks
           /\ pa_pc' = IF st.raised THEN "raised" ELSE "scan"
    /\ line_num' = line_num + 1
    /\ UNCHANGED <<content, fsVars, files, dlVars, prVars>>

\* return networks
PaReturn ==
    /\ pa_pc = "scan"
    /\ line_num > Len(content)
    /\ pa_pc' = "returned"
    /\ pa_networks' = returned_networks([in_country_block |-> in_country_block,
                                         networks |-> pa_networks,
                                         raised |-> FALSE])
    /\ UNCHANGED <<content, line_num, in_country_block>>
    /\ UNCHANGED <<fsVars, files, dlVars, prVars>>

PaNext == PaLine \/ PaReturn

SpecParse == PaInit /\ [][PaNext]_vars

\* ------------------------------------------------------ a whole run (Spec)
NumSources == 3

Sources == 1..NumSources

\* the documents a source may serve
DocNested4 ==
    << <<"acl BR", " ", "{">>, <<" ", "4:0/1", ";">>, <<"not-an-ip", ";">>,
       <<"4:1/2", ";", ";">>, <<"}", ";">>,
       <<"acl US", " ", "{">>, <<"6:1/2">>, <<"}", ";">> >>

\* the target block comes second and is cut off before its end marker
DocMixed ==
    << <<"acl US", " ", "{">>, <<" ", "4:0/1", ";">>, <<"}", ";">>,
       <<"acl BR", " ", "{">>, <<"4:3/1", ";">>, <<"6:1/2">>,
       <<"#", " ", "4:1/2">>, <<"6:0/0", ";">> >>

DocOther ==
    << <<"acl US", " ", "{">>, <<" ", "4:0/1", ";">>, <<"}", ";">> >>

DocEmpty == << <<>> >>

DocPool == {DocNested4, DocMixed, DocOther, DocEmpty}

\* networks = self.parse_acl_content(content), for each document of the pool
parsed_networks == [doc \in DocPool |-> parse_acl_content(doc)]

Init ==
    /\ served \in [Sources -> DocPool]
    /\ fetch = [s \in Sources |-> "queued"]
    /\ result = [s \in Sources |-> "pending"]
    /\ yielded = {}
    /\ all_networks = {}
    /\ ipv4_networks = {}
    /\ ipv6_networks = {}
    /\ pr_pc = "download"
    /\ log = {}
    /\ files = NoFiles
    /\ FsIdle
    /\ PaIdle

\* a pool thread takes the queued call of download_url
DlStart(s) ==
    /\ fetch[s] = "queued"
    /\ Cardinality({t \in Sources : fetch[t] = "running"}) < max_workers
    /\ fetch' = [fetch EXCEPT ![s] = "running"]
    /\ UNCHANGED <<served, result, yielded, all_networks>>
    /\ UNCHANGED <<fsVars, paVars, files, prVars>>

\* the worker parses the text and merges it into all_networks itself
DlText_merging(s) ==
    /\ fetch[s] = "running"
    /\ fetch' = [fetch EXCEPT ![s] = "done"]
    /\ result' = [result EXCEPT ![s] = "text"]
    /\ all_networks' = update(all_networks, parsed_networks[served[s]])
    /\ UNCHANGED <<served, yielded>>
    /\ UNCHANGED <<fsVars, paVars, files, prVars>>

\* download_url returns response.text
DlText(s) ==
    /\ fetch[s] = "running"
    /\ fetch' = [fetch EXCEPT ![s] = "done"]
    /\ result' = [result EXCEPT ![s] = "text"]
    /\ UNCHANGED <<served, yielded, all_networks>>
    /\ UNCHANGED <<fsVars, paVars, files, prVars>>

\* download_url catches requests.RequestException and returns None
DlFailed(s) ==
    /\ fetch[s] = "running"
    /\ fetch' = [fetch EXCEPT ![s] = "done"]
    /\ result' = [result EXCEPT ![s] = "None"]
    /\ UNCHANGED <<served, yielded, all_networks>>
    /\ UNCHANGED <<fsVars, paVars, files, prVars>>

\* download_url lets any other exception through; the future holds it
DlRaised(s) ==
    /\ fetch[s] = "running"
    /\ fetch' = [fetch EXCEPT ![s] = "done"]
    /\ result' = [result EXCEPT ![s] = "exception"]
    /\ UNCHANGED <<served, yielded, all_networks>>
    /\ UNCHANGED <<fsVars, paVars, files, prVars>>

\* as_completed yields a finished future whose content is parsed and merged
CollectText(s) ==
    /\ pr_pc = "download"
    /\ fetch[s] = "done" /\ s \notin yielded
    /\ result[s] = "text" /\ is_truthy(served[s])
    /\ all_networks' = update(all_networks, parsed_networks[served[s]])
    /\ yielded' = yielded \cup {s}
    /\ log' = log \cup {"extracted"}
    /\ UNCHANGED <<served, fetch, result, ipv4_networks, ipv6_networks, pr_pc>>
    /\ UNCHANGED <<fsVars, paVars, files>>

\* the source without content is waited for again
CollectNoContent_retry(s) ==
    /\ pr_pc = "download"
    /\ fetch[s] = "done" /\ s \notin yielded
    /\ \/ result[s] = "None"
       \/ result[s] = "text" /\ ~is_truthy(served[s])
    /\ log' = log \cup {"no_content"}
    /\ UNCHANGED <<served, fetch, result, yielded, all_networks, ipv4_networks,
                   ipv6_networks, pr_pc>>
    /\ UNCHANGED <<fsVars, paVars, files>>

\* ... whose content is None or empty
CollectNoContent(s) ==
    /\ pr_pc = "download"
    /\ fetch[s] = "done" /\ s \notin yielded
    /\ \/ result[s] = "None"
       \/ result[s] = "text" /\ ~is_truthy(served[s])
    /\ yielded' = yielded \cup {s}
    /\ log' = log \cup {"no_content"}
    /\ UNCHANGED <<served, fetch, result, all_networks, ipv4_networks,
                   ipv6_networks, pr_pc>>
    /\ UNCHANGED <<fsVars, paVars, files>>

\* ... whose result() raises
CollectError(s) ==
    /\ pr_pc = "download"
    /\ fetch[s] = "done" /\ s \notin yielded
    /\ result[s] = "exception"
    /\ yielded' = yielded \cup {s}
    /\ pr_pc' = on_processing_error(pr_pc)
    /\ log' = log \cup {"error_processing"} \cup
              (IF pr_pc' = "raised" THEN {"processing_failed"} ELSE {})
    /\ UNCHANGED <<served, fetch, result, all_networks, ipv4_networks,
                   ipv6_networks>>
    /\ UNCHANGED <<fsVars, paVars, files>>

\* the loop over as_completed is over: split by version and return
Split ==
    /\ pr_pc = "download"
    /\ yielded = Sources
    /\ ipv4_networks' = {net \in all_networks : net.version = 4}
    /\ ipv6_networks' = {net \in all_networks : net.version = 6}
    /\ log' = log \cup {"total"}
    /\ pr_pc' = "check"
    /\ UNCHANGED <<fsVars, paVars, files, dlVars>>

\* process: nothing was found, return
NoNetworksFound ==
    /\ pr_pc = "check"
    /\ no_networks(ipv4_networks, ipv6_networks)
    /\ log' = log \cup {"no_networks_found"}
    /\ pr_pc' = "returned"
    /\ UNCHANGED <<ipv4_networks, ipv6_networks>>
    /\ UNCHANGED <<fsVars, paVars, files, dlVars>>

NetworksFound ==
    /\ pr_pc = "check"
    /\ ~no_networks(ipv4_networks, ipv6_networks)
    /\ pr_pc' = "reduce4"
    /\ UNCHANGED <<ipv4_networks, ipv6_networks, log>>
    /\ UNCHANGED <<fsVars, paVars, files, dlVars>>

ReducePc(v) == IF v = 4 THEN "reduce4" ELSE "reduce6"
SavePc(v) == IF v = 4 THEN "save4" ELSE "save6"
AfterPc(v) == IF v = 4 THEN "reduce6" ELSE "finish"
NetsOfRun(v) == IF v = 4 THEN ipv4_networks ELSE ipv6_networks

\* except IOError: logger.error(...); raise -- and process raises it again
on_io_error_swallow(v) == AfterPc(v)

on_io_error(v) == "raised"

\* the value filter_supernets returns is dropped
Reduce_discard(v) ==
    /\ pr_pc = ReducePc(v)
    /\ NetsOfRun(v) # {}
    /\ log' = log \cup {ReducePc(v)}
    /\ pr_pc' = SavePc(v)
    /\ UNCHANGED <<ipv4_networks, ipv6_networks>>
    /\ UNCHANGED <<fsVars, paVars, files, dlVars>>

\* if ipvN_networks: ipvN_networks = self.filter_supernets(ipvN_networks)
Reduce(v) ==
    /\ pr_pc = ReducePc(v)
    /\ NetsOfRun(v) # {}
    /\ \E order \in Orders(NetsOfRun(v)) :
         IF v = 4
         THEN ipv4_networks' = filter_supernets(order) /\ UNCHANGED ipv6_networks
         ELSE ipv6_networks' = filter_supernets(order) /\ UNCHANGED ipv4_networks
    /\ log' = log \cup {ReducePc(v)}
    /\ pr_pc' = SavePc(v)
    /\ UNCHANGED <<fsVars, paVars, files, dlVars>>

\* the family's set is empty: neither reduced nor saved
SkipFamily(v) ==
    /\ pr_pc = ReducePc(v)
    /\ NetsOfRun(v) = {}
    /\ pr_pc' = AfterPc(v)
    /\ UNCHANGED <<ipv4_networks, ipv6_networks, log>>
    /\ UNCHANGED <<fsVars, paVars, files, dlVars>>

\* self.save_networks_to_file(ipvN_networks, ipvN_file)
Save(v) ==
    /\ pr_pc = SavePc(v)
    /\ \E order \in Orders(NetsOfRun(v)) :
         files' = save_networks_to_file(files, order, v)
    /\ log' = log \cup (IF NetsOfRun(v) = {} THEN {"nothing_to_save"} ELSE {SavePc(v)})
    /\ pr_pc' = AfterPc(v)
    /\ UNCHANGED <<ipv4_networks, ipv6_networks>>
    /\ UNCHANGED <<fsVars, paVars, dlVars>>

\* ... raises IOError, which process logs and raises again
SaveFail(v) ==
    /\ pr_pc = SavePc(v)
    /\ NetsOfRun(v) # {}
    /\ \E order \in Orders(NetsOfRun(v)) :
         files' \in save_interrupted(files, order, v)
    /\ pr_pc' = on_io_error(v)
    /\ log' = log \cup {"save_failed"} \cup
              (IF pr_pc' = "raised" THEN {"processing_failed"} ELSE {})
    /\ UNCHANGED <<ipv4_networks, ipv6_networks>>
    /\ UNCHANGED <<fsVars, paVars, dlVars>>

\* the closing log lines of process
Finish ==
    /\ pr_pc = "finish"
    /\ log' = log \cup {"completed"}
    /\ pr_pc' = "completed"
    /\ UNCHANGED <<ipv4_networks, ipv6_networks>>
    /\ UNCHANGED <<fsVars, paVars, files, dlVars>>

Next ==
    \/ \E s \in Sources : DlStart(s)
    \/ \E s \in Sources : DlText(s)
    \/ \E s \in Sources : DlFailed(s)
    \/ \E s \in Sources : DlRaised(s)
    \/ \E s \in Sources : CollectText(s)
    \/ \E s \in Sources : CollectNoContent(s)
    \/ \E s \in Sources : CollectError(s)
    \/ Split
    \/ NoNetworksFound
    \/ NetworksFound
    \/ \E v \in Versions : Reduce(v)
    \/ \E v \in Versions : SkipFamily(v)
    \/ \E v \in Versions : Save(v)
    \/ \E v \in Versions : SaveFail(v)
    \/ Finish

Spec == Init /\ [][Next]_vars

\* every fetch ends (text, failure or timeout), the pool runs what is queued
\* and the collecting thread is not held back
FairSpec == Spec /\ WF_vars(Next)

\* ============================================================== properties
\* AddressPrefix containment as the data model states it: same family, B at
\* least as long as A, and B's address masked to A's length is A's address.
Contains(A, B) ==
    /\ A.version = B.version
    /\ B.prefixlen >= A.prefixlen
    /\ B.network_address - (B.network_address % Pow2(AddrBits - A.prefixlen))
       = A.network_address

net4(address, prefixlen) ==
    [version |-> 4, network_address |-> address, prefixlen |-> prefixlen]

\* X and Y are the two halves of one parent prefix
Siblings(X, Y) ==
    /\ X.version = Y.version
    /\ X.prefixlen = Y.prefixlen
    /\ X.prefixlen > 0
    /\ X # Y
    /\ \E P \in Networks : /\ P.prefixlen = X.prefixlen - 1
                           /\ Contains(P, X) /\ Contains(P, Y)

ParentOf(X) ==
    CHOOSE P \in Networks : P.prefixlen = X.prefixlen - 1 /\ Contains(P, X)

Minimal(S) == \A X, Y \in S : X # Y => ~Contains(X, Y)

\* C1: the set returned by filter_supernets holds no two distinct elements
\* of which one contains the other.
C1_NoNestedPair ==
    fs_pc = "returned" =>
        \A X, Y \in filtered : X # Y => ~Contains(X, Y)

C1_Witness ==
    /\ fs_pc = "returned"
    /\ fs_round = "first"
    /\ \E X, Y \in networks : X # Y /\ Contains(X, Y)
    /\ Cardinality(filtered) >= 2

\* 10.0.0.0/24, 10.0.0.0/25, 192.168.1.0/32 at the model's address width
LastHost == net4(Pow2(AddrBits) - 1, AddrBits)
Scenario1In == {net4(0, 1), net4(0, 2), LastHost}
Scenario1Out == {net4(0, 1), LastHost}

\* C2: every input element is in the result or contained by an element of
\* the result; the empty input gives the empty result; scenario 1.
C2_Coverage ==
    fs_pc = "returned" =>
        /\ \A Y \in networks :
              Y \in filtered \/ \E X \in filtered : Contains(X, Y)
        /\ (networks = {} => filtered = {})
        /\ (networks = Scenario1In => filtered = Scenario1Out)

C2_Witness ==
    /\ fs_pc = "returned"
    /\ fs_round = "first"
    /\ networks = Scenario1In
    /\ filtered = Scenario1Out

\* C3: the result is a subset of the input; two siblings that nothing in the
\* input contains are both kept and their parent is not put in their place.
C3_NoNewPrefix ==
    fs_pc = "returned" =>
        /\ filtered \subseteq networks
        /\ \A X, Y \in networks :
              (/\ Siblings(X, Y)
               /\ \A Z \in networks : Contains(Z, X) \/ Contains(Z, Y) => Z \in {X, Y})
              => /\ X \in filtered
                 /\ Y \in filtered
                 /\ ParentOf(X) \notin filtered

C3_Witness ==
    /\ fs_pc = "returned"
    /\ fs_round = "first"
    /\ \E X, Y \in networks :
          /\ Siblings(X, Y)
          /\ ParentOf(X) \notin networks
          /\ X \in filtered /\ Y \in filtered
          /\ Cardinality(networks) = 3

\* C5: two calls on the same set, whatever order each iterates it in, return
\* the same set.
C5_OrderIndependent ==
    (fs_pc = "returned" /\ fs_round = "shuffled") =>
        /\ prev_networks = networks
        /\ filtered = prev_filtered

C5_Witness ==
    /\ fs_pc = "returned"
    /\ fs_round = "shuffled"
    /\ Cardinality(networks) = 3
    /\ \E X, Y \in networks : X # Y /\ Contains(X, Y)
    /\ filtered = prev_filtered

\* C6: reducing the result again returns it unchanged, and a set without a
\* nested pair is returned unchanged.
C6_Idempotent ==
    /\ (fs_pc = "returned" /\ fs_round = "reapplied") =>
          /\ networks = prev_filtered
          /\ filtered = prev_filtered
    /\ (fs_pc = "returned" /\ Minimal(networks)) => filtered = networks

C6_Witness ==
    /\ fs_pc = "returned"
    /\ fs_round = "reapplied"
    /\ Cardinality(prev_networks) = 3
    /\ Cardinality(prev_filtered) = 2
    /\ filtered = prev_filtered

\* --------------------------------------------------------------- extractor
HasStart(line) == \E i \in DOMAIN line : line[i] = "acl BR"
HasEnd(line) == \E i \in DOMAIN line : line[i] = "}"

\* the flag after lines 1..k: some line s <= k holds the start marker and no
\* line after s, up to k, holds '}'
FlagAfter(doc, k) ==
    \E s \in 1..k :
        /\ HasStart(doc[s])
        /\ \A j \in (s + 1)..k : ~HasEnd(doc[j])

\* the networks whose literal stands anywhere on the line
NetsOnLine(line) ==
    {literal(line[i]) : i \in {j \in DOMAIN line : line[j] \in LiteralText}}

\* C7: the flag is set by a line with the start marker and cleared by the
\* first following line with '}'; a prefix comes only from a line scanned
\* while the flag is set.
C7_OnlyInBlock ==
    pa_pc \in {"scan", "returned"} =>
        /\ in_country_block = FlagAfter(content, line_num - 1)
        /\ pa_networks \subseteq
              UNION {NetsOnLine(content[j]) :
                        j \in {k \in 1..(line_num - 1) : FlagAfter(content, k - 1)}}

C7_Witness ==
    /\ pa_pc = "returned"
    /\ pa_networks # {}
    /\ \E j \in DOMAIN content :
          /\ ~FlagAfter(content, j - 1)
          /\ ~HasStart(content[j])
          /\ NetsOnLine(content[j]) # {}
          /\ NetsOnLine(content[j]) \cap pa_networks = {}
          /\ \E e \in 1..(j - 1) : HasEnd(content[e]) /\ FlagAfter(content, e - 1)

\* a line that is neither a marker, blank nor a comment and holds no literal
NotALiteral(line) ==
    /\ ~HasStart(line) /\ ~HasEnd(line)
    /\ \E i \in DOMAIN line : line[i] = "not-an-ip"
    /\ NetsOnLine(line) = {}

\* the line is one literal, optionally indented and ended by one ';'
OneLiteral(line) ==
    \E t \in LiteralText :
        line \in { <<t>>, <<t, ";">>, <<" ", t>>, <<" ", t, ";">> }

InBlockAt(doc, j) == FlagAfter(doc, j - 1) /\ ~HasStart(doc[j]) /\ ~HasEnd(doc[j])

Scenario4 ==
    << <<"acl BR", " ", "{">>, <<"not-an-ip", ";">>, <<"4:3/1", ";">>, <<"}", ";">> >>

\* C8: an in-block line that is no network literal does not stop the scan
\* and leaves the flag as it was; the valid in-block lines before and after
\* it all contribute; scenario 4 yields the one prefix.
C8_InvalidLineSkipped ==
    /\ pa_pc # "raised"
    /\ pa_pc = "returned" => line_num = Len(content) + 1
    /\ pa_pc \in {"scan", "returned"} =>
          /\ \A j \in 1..(line_num - 1) :
                (InBlockAt(content, j) /\ OneLiteral(content[j]))
                    => NetsOnLine(content[j]) \subseteq pa_networks
          /\ (/\ line_num > 1
              /\ InBlockAt(content, line_num - 1)
              /\ NotALiteral(content[line_num - 1])) => in_country_block
    /\ (pa_pc = "returned" /\ content = Scenario4)
          => /\ Cardinality(pa_networks) = 1
             /\ pa_networks = NetsOnLine(Scenario4[3])

C8_Witness ==
    /\ pa_pc = "returned"
    /\ \E i, j, k \in DOMAIN content :
          /\ i < j /\ j < k
          /\ InBlockAt(content, i) /\ OneLiteral(content[i])
          /\ InBlockAt(content, j) /\ NotALiteral(content[j])
          /\ InBlockAt(content, k) /\ OneLiteral(content[k])
          /\ NetsOnLine(content[i]) # NetsOnLine(content[k])
          /\ NetsOnLine(content[i]) \cup NetsOnLine(content[k]) = pa_networks

\* ----------------------------------------------------------- emitted lists
RangeFirst(n) == n.network_address
RangeLast(n) == n.network_address + Pow2(AddrBits - n.prefixlen) - 1

Disjoint(X, Y) ==
    /\ RangeLast(X) < RangeFirst(Y) \/ RangeLast(Y) < RangeFirst(X)
    /\ X.network_address # Y.network_address

\* C4: any two distinct prefixes of a reduced set, and of the list written
\* from it, cover disjoint address ranges and differ in their network address.
C4_NonOverlapping ==
    /\ fs_pc \in {"returned", "saved", "save_failed"} =>
          \A X, Y \in filtered : X # Y => Disjoint(X, Y)
    /\ \A v \in Versions :
          \A i, j \in DOMAIN files[v].lines :
              i # j => Disjoint(files[v].lines[i], files[v].lines[j])

C4_Witness ==
    /\ fs_pc = "saved"
    /\ \E X, Y \in networks : X # Y /\ ~Disjoint(X, Y)
    /\ \E v \in Versions : files[v].exists /\ Len(files[v].lines) = 2

\* ------------------------------------------------------------ whole run
Fetched == {s \in Sources : result[s] = "text"}

ParsedFrom(S) == UNION {parse_acl_content(served[s]) : s \in S}

\* C9: whatever fetches fail and in whatever order they complete, the two
\* sets returned are the union of parse_acl_content over the fetched
\* documents, split by family; no failure stops the loop.
C9_UnionOfFetched ==
    /\ pr_pc = "download" => all_networks = ParsedFrom(Fetched \cap yielded)
    /\ pr_pc = "check" =>
          /\ yielded = Sources
          /\ ipv4_networks = {n \in ParsedFrom(Fetched) : n.version = 4}
          /\ ipv6_networks = {n \in ParsedFrom(Fetched) : n.version = 6}
    /\ pr_pc = "raised" => "save_failed" \in log

C9_Witness ==
    /\ pr_pc = "check"
    /\ \E s, t, u \in Sources :
          /\ result[s] = "None"
          /\ result[t] = "exception"
          /\ result[u] = "text"
          /\ ipv4_networks # {} /\ ipv6_networks # {}
          /\ ipv4_networks \cup ipv6_networks = parse_acl_content(served[u])

AfterCheck ==
    {"reduce4", "save4", "reduce6", "save6", "finish", "completed", "returned", "raised"}

\* C10: when nothing was found for the country the run ends there: the
\* reducer is not called and no output file is written or created.
C10_NothingFound ==
    /\ (pr_pc \in AfterCheck /\ all_networks = {}) =>
          /\ pr_pc = "returned"
          /\ "no_networks_found" \in log
          /\ log \cap {"reduce4", "reduce6", "save4", "save6", "completed"} = {}
          /\ files = NoFiles
    /\ pr_pc = "returned" => all_networks = {}

C10_Witness ==
    /\ pr_pc = "returned"
    /\ \E s, t \in Sources :
          /\ result[s] = "text" /\ served[s] = DocOther
          /\ result[t] = "None"
    /\ files = NoFiles

\* ------------------------------------------------------------ run results
Terminal == pr_pc \in {"returned", "completed", "raised"}

\* the four outcomes of a run
RunOutcome ==
    IF Fetched = {} THEN "all sources unreachable"
    ELSE IF all_networks = {} THEN "no networks found"
    ELSE IF Fetched # Sources THEN "partial success"
    ELSE "success"

Observed(pc) == <<process_result(pc), exit_status(pc)>>

\* C11: what the caller observes (value returned, exception, exit status)
\* differs between the outcomes: a run that is no plain success is not
\* observed as one.
C11_OutcomesDistinguishable ==
    (Terminal /\ "save_failed" \notin log /\ RunOutcome # "success")
        => Observed(pr_pc) # Observed("completed")

\* ------------------------------------------------------------ output files
\* the prefixes of family v found in the fetched documents
FoundOf(v) == {n \in ParsedFrom(Fetched) : n.version = v}

\* those of them that no other one contains
ReducedOf(v) ==
    {n \in FoundOf(v) : \A x \in FoundOf(v) : Contains(x, n) => x = n}

LinesOf(v) == {files[v].lines[i] : i \in DOMAIN files[v].lines}

\* C12: a family's file exists only once filter_supernets has returned for
\* that family; every line in it is a prefix of the reduced set and a
\* completed write leaves exactly the reduced set; an empty family has no file.
C12_WrittenAfterReduction ==
    \A v \in Versions :
        /\ files[v].exists => ReducePc(v) \in log /\ pr_pc \notin {"download", "check", ReducePc(v)}
        /\ LinesOf(v) \subseteq ReducedOf(v)
        /\ SavePc(v) \in log => files[v].exists /\ LinesOf(v) = ReducedOf(v)
        /\ (pr_pc \in AfterCheck /\ FoundOf(v) = {}) => ~files[v].exists

C12_Witness ==
    /\ pr_pc = "completed"
    /\ ReducedOf(4) # FoundOf(4)
    /\ files[4].exists /\ LinesOf(4) = ReducedOf(4)
    /\ FoundOf(6) = {} /\ ~files[6].exists

\* C13: once a save has failed the run ends by raising: it is never reported
\* as completed and main exits with status 1.
C13_PersistErrorPropagates ==
    "save_failed" \in log =>
        /\ pr_pc = "raised"
        /\ "completed" \notin log
        /\ process_result(pr_pc) = "exception"
        /\ exit_status(pr_pc) = 1

C13_Witness ==
    /\ pr_pc = "raised"
    /\ "save_failed" \in log
    /\ files[4].exists /\ LinesOf(4) = ReducedOf(4)
    /\ ipv6_networks # {} /\ ~files[6].exists

\* the ordering of the data model: address first, then prefix length
Before(X, Y) ==
    \/ X.network_address < Y.network_address
    \/ X.network_address = Y.network_address /\ X.prefixlen < Y.prefixlen

\* C14: a completed write lists every element of the reduced set exactly
\* once, and the lines of a file are in strictly ascending order by
\* (network address, prefix length).
C14_SortedOutput ==
    \A v \in Versions :
        /\ \A i, j \in DOMAIN files[v].lines :
              i < j => Before(files[v].lines[i], files[v].lines[j])
        /\ (fs_pc = "saved" /\ filtered # {} /\ VersionOf(filtered) = v) =>
              /\ files[v].exists
              /\ {files[v].lines[i] : i \in DOMAIN files[v].lines} = filtered
              /\ Len(files[v].lines) = Cardinality(filtered)

C14_Witness ==
    /\ fs_pc = "saved"
    /\ Cardinality(filtered) = 3
    /\ \E v \in Versions :
          /\ Len(files[v].lines) = 3
          /\ Before(files[v].lines[1], files[v].lines[2])
          /\ Before(files[v].lines[2], files[v].lines[3])

\* ------------------------------------------------------ truncated document
\* C15: when the document ends inside the target block the scan returns
\* normally, the flag still set, with every prefix of the open block.
C15_OpenBlockAtEnd ==
    /\ pa_pc \in {"idle", "scan", "returned"}
    /\ (pa_pc = "returned" /\ FlagAfter(content, Len(content))) =>
          /\ in_country_block
          /\ \A j \in DOMAIN content :
                (InBlockAt(content, j) /\ OneLiteral(content[j]))
                    => NetsOnLine(content[j]) \subseteq pa_networks

C15_Witness ==
    /\ pa_pc = "returned"
    /\ in_country_block
    /\ HasStart(content[1])
    /\ \A j \in DOMAIN content : ~HasEnd(content[j])
    /\ Cardinality(pa_networks) = 3

\* ------------------------------------------------------ removal in the loop
StrictlyContains(X, Y) == X # Y /\ Contains(X, Y)

\* an aggregate of the input that strictly contains two entries of which
\* neither contains the other
HasAggregate(S) ==
    \E X, Y, Z \in S :
        /\ StrictlyContains(X, Y) /\ StrictlyContains(X, Z)
        /\ Y # Z /\ ~Contains(Y, Z) /\ ~Contains(Z, Y)

\* C16 as claimed: on inputs with such an aggregate, processing a later
\* element removes earlier-inserted elements from the accumulator.
C16_RemovalOccurs ==
    (fs_pc = "returned" /\ HasAggregate(networks)) => evicted # {}

\* C16 as amended: in ascending (address, prefix length) order a prefix is
\* processed after every prefix that contains it, so the loop never removes
\* an element from the accumulator; contained elements are never inserted.
C16_NothingRemoved ==
    /\ evicted = {}
    /\ fs_pc = "returned" => filtered \subseteq networks

C16_Witness ==
    /\ fs_pc = "returned"
    /\ HasAggregate(networks)
    /\ Cardinality(filtered) = 1
    /\ evicted = {}

\* --------------------------------------------------------- the candidate
\* s without its leading and trailing ch
Trim(s, ch) ==
    LET keep == {i \in DOMAIN s : s[i] # ch}
    IN  IF keep = {} THEN <<>>
        ELSE SubSeq(s, CHOOSE i \in keep : \A k \in keep : i <= k,
                       CHOOSE i \in keep : \A k \in keep : i >= k)

\* the trimmed line without one trailing ';'
CandidateOneSemicolon(line) ==
    LET t == Trim(line, " ")
    IN  IF t # <<>> /\ t[Len(t)] = ";" THEN SubSeq(t, 1, Len(t) - 1) ELSE t

\* the trimmed line without its leading and trailing ';', trimmed again
CandidateAllSemicolons(line) == Trim(Trim(Trim(line, " "), ";"), " ")

IsLiteral(c) == Len(c) = 1 /\ c[1] \in LiteralText

ScannedInBlock == {j \in 1..(line_num - 1) : InBlockAt(content, j)}

\* C17: the candidate of an in-block line is the trimmed line without one
\* trailing ';', so the prefixes collected are those of the in-block lines
\* that are one literal once a single trailing ';' is removed.
C17_OneTrailingSemicolon ==
    pa_pc \in {"scan", "returned"} =>
        pa_networks =
            {literal(CandidateOneSemicolon(content[j])[1]) :
                j \in {k \in ScannedInBlock :
                          IsLiteral(CandidateOneSemicolon(content[k]))}}

\* what line 102 does instead: the candidate is the trimmed line without all
\* its leading and trailing ';', trimmed again; a candidate that starts with
\* '#' or is no literal gives no prefix.
C17_AllSemicolons ==
    pa_pc \in {"scan", "returned"} =>
        pa_networks =
            {literal(CandidateAllSemicolons(content[j])[1]) :
                j \in {k \in ScannedInBlock :
                          IsLiteral(CandidateAllSemicolons(content[k]))}}

\* a line with two trailing ';' gives its prefix, a line with '#' after a
\* leading ';' gives none
C17_Witness ==
    /\ pa_pc = "returned"
    /\ \E j, k \in ScannedInBlock :
          /\ content[j] = <<"4:1/2", ";", ";">>
          /\ content[k] = <<";", "#", "4:2">>
          /\ pa_networks = {literal("4:1/2")}

\* ------------------------------------------------------------- the merge
\* C18: only the collecting thread changes all_networks, one source at a
\* time; a step of a fetch worker never changes it.
C18_SingleMergePoint ==
    [][ all_networks' # all_networks =>
          /\ pr_pc = "download"
          /\ fetch' = fetch /\ result' = result
          /\ \E s \in Sources : s \notin yielded /\ yielded' = yielded \cup {s} ]_vars

C18_Witness ==
    /\ all_networks # {}
    /\ Cardinality(yielded) = 1
    /\ \E s, t \in Sources : fetch[s] = "running" /\ fetch[t] = "queued"

\* ------------------------------------------------------------ termination
\* C19: when every fetch ends, the run reaches a final state.
C19_Terminates == <>Terminal

C19_Witness ==
    /\ Terminal
    /\ \A s \in Sources : result[s] \in {"None", "exception"}

\* -------------------------------------------------- precedence of markers
BothMarkers(line) == HasStart(line) /\ HasEnd(line)

\* C20: a line with the start marker leaves the flag set, also when it holds
\* '}' and also when the flag was set; the lines after it are collected up
\* to the next line with '}'; the marker line itself gives no prefix.
C20_StartMarkerFirst ==
    pa_pc \in {"scan", "returned"} =>
        /\ (line_num > 1 /\ HasStart(content[line_num - 1])) => in_country_block
        /\ \A j, k \in 1..(line_num - 1) :
              (/\ j < k
               /\ HasStart(content[j])
               /\ \A e \in (j + 1)..k : ~HasEnd(content[e])
               /\ OneLiteral(content[k]))
              => NetsOnLine(content[k]) \subseteq pa_networks
        /\ pa_networks \subseteq
              UNION {NetsOnLine(content[j]) :
                        j \in {k \in 1..(line_num - 1) : ~HasStart(content[k])}}

C20_Witness ==
    /\ pa_pc = "returned"
    /\ Len(content) = 4
    /\ HasStart(content[1]) /\ ~HasEnd(content[1])
    /\ BothMarkers(content[2])
    /\ OneLiteral(content[3]) /\ NetsOnLine(content[3]) = pa_networks
    /\ HasEnd(content[4]) /\ ~HasStart(content[4])
    /\ ~in_country_block
====
